---- MODULE Spec2Model ----
(***************************************************************************)
(* Model of the BigModel web-search plugin (src/index.ts): the plugin      *)
(* config normalizer, the request executor performWebSearch, the result    *)
(* formatter formatSearchResults and the tool's execute handler.           *)
(*                                                                         *)
(* JavaScript values are tagged records [t, ...]; a JavaScript object is a *)
(* function from its own keys to values, so an absent key and a key bound  *)
(* to undefined stay different things. Strings are TLA+ strings and are    *)
(* built by concatenation, as the template literals build them.            *)
(***************************************************************************)
EXTENDS Integers, Sequences, FiniteSets, TLC

VARIABLES
    apiPluginConfig,  \* api.pluginConfig, the raw value the host hands to register
    env,              \* process.env.BIGMODEL_API_KEY
    tool,             \* "unregistered" | "registered" | "failed" (register threw)
    pluginConfig,     \* the const pluginConfig captured by execute's closure
    calls,            \* the invocations of execute, by invocation id
    search,           \* a direct call of performWebSearch
    fmt               \* a direct call of formatSearchResults

vars == <<apiPluginConfig, env, tool, pluginConfig, calls, search, fmt>>

----------------------------------------------------------------------------
(* JavaScript values *)

Undefined == [t |-> "undefined"]
Null == [t |-> "null"]
Bool(b) == [t |-> "boolean", v |-> b]
Str(s) == [t |-> "string", v |-> s]
\* The number v + frac/10, v its floor and frac one decimal digit.
Frac(n, f) == [t |-> "number", nan |-> FALSE, v |-> n, frac |-> f]
Num(n) == Frac(n, 0)
NaN == [t |-> "number", nan |-> TRUE, v |-> 0, frac |-> 0]
Arr(s) == [t |-> "array", v |-> s]
Obj(f) == [t |-> "object", v |-> f]

EmptyObject == [k \in {} |-> Undefined]

\* o.k on an object's own keys: undefined when the key is absent.
Get(o, k) == IF k \in DOMAIN o THEN o[k] ELSE Undefined

\* value.k for any JavaScript value but null and undefined (which throw):
\* a primitive or an array has none of the keys read here.
Prop(x, k) == IF x.t = "object" THEN Get(x.v, k) ELSE Undefined

\* a ?? b
Nullish(x) == x.t \in {"undefined", "null"}
Coalesce(a, b) == IF Nullish(a) THEN b ELSE a

\* !x is false
Truthy(x) ==
    CASE x.t \in {"undefined", "null"} -> FALSE
      [] x.t = "boolean" -> x.v
      [] x.t = "string" -> x.v # ""
      [] x.t = "number" -> ~x.nan /\ ~(x.v = 0 /\ x.frac = 0)
      [] OTHER -> TRUE

\* x >= n and x <= n for a number x and an integer n (false on NaN)
NumGeq(x, n) == ~x.nan /\ x.v >= n
NumLeq(x, n) == ~x.nan /\ (x.v < n \/ (x.v = n /\ x.frac = 0))
IsInteger(x) == x.t = "number" /\ ~x.nan /\ x.frac = 0

\* How a call completes: it returns a value or throws an Error with a message.
Return(v) == [kind |-> "return", value |-> v]
Throw(m) == [kind |-> "throw", message |-> m]

----------------------------------------------------------------------------
(* Plugin configuration: pluginConfigSchema.parse *)

SearchEngines == {"search_std", "search_pro", "search_pro_sogou", "search_pro_quark"}
MinCount == 1
MaxCount == 50
ConfigKeys == {"enabled", "apiKey", "defaultSearchEngine", "defaultCount"}

enabledField(raw) ==
    IF Get(raw, "enabled").t = "boolean" THEN Get(raw, "enabled") ELSE Undefined

apiKeyField(raw) ==
    IF Get(raw, "apiKey").t = "string" THEN Get(raw, "apiKey") ELSE Undefined

defaultSearchEngineField(raw) ==
    LET e == Get(raw, "defaultSearchEngine")
    IN  IF e.t = "string" /\ e.v \in SearchEngines THEN e ELSE Undefined

defaultCountField(raw) ==
    LET c == Get(raw, "defaultCount")
    IN  IF c.t = "number" /\ NumGeq(c, MinCount) /\ NumLeq(c, MaxCount)
        THEN c ELSE Undefined

\* The variant of the compiled index.js: unknown keys are an error.
parseStrict(value) ==
    IF ~Truthy(value) \/ value.t # "object"
    THEN Return(EmptyObject)
    ELSE IF DOMAIN value.v \subseteq ConfigKeys
         THEN Return([k \in ConfigKeys |->
                        CASE k = "enabled" -> enabledField(value.v)
                          [] k = "apiKey" -> apiKeyField(value.v)
                          [] k = "defaultSearchEngine" -> defaultSearchEngineField(value.v)
                          [] k = "defaultCount" -> defaultCountField(value.v)])
         ELSE Throw("Unknown config keys")

\* typeof [] is "object" in JavaScript; here an array has its own tag, so
\* the single test value.t # "object" covers typeof and Array.isArray.
parse(value) ==
    IF ~Truthy(value) \/ value.t # "object"
    THEN Return(EmptyObject)
    ELSE Return([k \in ConfigKeys |->
                   CASE k = "enabled" -> enabledField(value.v)
                     [] k = "apiKey" -> apiKeyField(value.v)
                     [] k = "defaultSearchEngine" -> defaultSearchEngineField(value.v)
                     [] k = "defaultCount" -> defaultCountField(value.v)])

----------------------------------------------------------------------------
(* Strings *)

\* sub occurs in s
Contains(s, sub) ==
    \E i \in 1..(Len(s) - Len(sub) + 1) : SubSeq(s, i, i + Len(sub) - 1) = sub

StartsWith(s, prefix) ==
    Len(s) >= Len(prefix) /\ SubSeq(s, 1, Len(prefix)) = prefix

\* The position of the first occurrence of sep in s, 0 when there is none.
IndexOf(s, sep) ==
    IF Contains(s, sep)
    THEN CHOOSE i \in 1..(Len(s) - Len(sep) + 1) :
            /\ SubSeq(s, i, i + Len(sep) - 1) = sep
            /\ \A j \in 1..(i - 1) : SubSeq(s, j, j + Len(sep) - 1) # sep
    ELSE 0

RECURSIVE Split(_, _)
\* s.split(sep), for a non-empty sep
Split(s, sep) ==
    LET i == IndexOf(s, sep)
    IN  IF i = 0 THEN <<s>>
        ELSE <<SubSeq(s, 1, i - 1)>> \o Split(SubSeq(s, i + Len(sep), Len(s)), sep)

RECURSIVE Join(_, _)
\* parts.join(sep)
Join(parts, sep) ==
    IF Len(parts) = 0 THEN ""
    ELSE IF Len(parts) = 1 THEN parts[1]
    ELSE parts[1] \o sep \o Join(Tail(parts), sep)

\* String(x), as a template literal converts x
ToStr(x) ==
    CASE x.t = "string" -> x.v
      [] x.t = "undefined" -> "undefined"
      [] x.t = "null" -> "null"
      [] x.t = "boolean" -> IF x.v THEN "true" ELSE "false"
      [] x.t = "number" ->
            IF x.nan THEN "NaN"
            ELSE IF x.frac = 0 THEN ToString(x.v)
            ELSE ToString(x.v) \o "." \o ToString(x.frac)
      [] x.t = "array" -> Join([i \in 1..Len(x.v) |-> "item"], ",")
      [] OTHER -> "[object Object]"

----------------------------------------------------------------------------
(* Search request executor: performWebSearch *)

BIGMODEL_API_URL == "https://open.bigmodel.cn/api/paas/v4/web_search"
DefaultCount == 10
BodyKeys == {"search_query", "search_engine", "search_intent", "count",
             "search_recency_filter", "content_size"}

\* A variant that tests the key's presence instead of its truthiness.
domainFilterKeysPresent(params) ==
    IF "search_domain_filter" \in DOMAIN params
    THEN {"search_domain_filter"} ELSE {}

\* ...(params.search_domain_filter && {search_domain_filter: ...}): spreading
\* a falsy value (undefined, "") adds no key.
domainFilterKeys(params) ==
    IF Truthy(Get(params, "search_domain_filter"))
    THEN {"search_domain_filter"} ELSE {}

requestBody(params) ==
    [k \in BodyKeys \cup domainFilterKeys(params) |->
        CASE k = "search_query" -> Get(params, "query")
          [] k = "search_engine" ->
                Coalesce(Get(params, "search_engine"), Str("search_std"))
          [] k = "search_intent" -> Bool(FALSE)
          [] k = "count" -> Coalesce(Get(params, "count"), Num(DefaultCount))
          [] k = "search_recency_filter" ->
                Coalesce(Get(params, "search_recency_filter"), Str("noLimit"))
          [] k = "content_size" ->
                Coalesce(Get(params, "content_size"), Str("medium"))
          [] k = "search_domain_filter" -> Get(params, "search_domain_filter")]

\* JSON.stringify(o), as the JSON value the receiver parses: a key bound to
\* undefined is left out and NaN is written as null.
JSONstringify(o) ==
    [k \in {j \in DOMAIN o : o[j].t # "undefined"} |->
        IF o[k].t = "number" /\ o[k].nan THEN Null ELSE o[k]]

\* The argument of fetch.
fetchRequest(params, apiKey) ==
    [url |-> BIGMODEL_API_URL,
     method |-> "POST",
     Authorization |-> "Bearer " \o ToStr(apiKey),
     ContentType |-> "application/json",
     body |-> JSONstringify(requestBody(params))]

\* What fetch settles with: a rejection (network failure) or a response
\* with a status and a body that parses as JSON or does not.
FetchRejected(m) == [kind |-> "reject", message |-> m]
FetchResponse(status, body) == [kind |-> "response", status |-> status, body |-> body]
Unparseable == [parses |-> FALSE]
JsonBody(j) == [parses |-> TRUE, json |-> j]

\* response.ok
Ok(status) == status >= 200 /\ status <= 299

\* response.json()
responseJson(body) ==
    IF body.parses THEN Return(body.json)
    ELSE Throw("Unexpected token < in JSON at position 0")

\* Lines 180-184: the branch taken on !response.ok; it always throws.
nonOkError(status, body) ==
    LET parsed == responseJson(body)
        errorData == IF parsed.kind = "throw" THEN Obj(EmptyObject) ELSE parsed.value
    IN  IF Nullish(errorData)
        THEN Throw("Cannot read properties of null (reading 'error')")
        ELSE LET error == Prop(errorData, "error")
                 message == IF Nullish(error) THEN Undefined ELSE Prop(error, "message")
                 errorMessage == Coalesce(message, Str("HTTP " \o ToString(status)))
             IN  Throw("BigModel API error: " \o ToStr(errorMessage))

\* performWebSearch from the point where fetch settles with `fetched`.
performWebSearch(fetched) ==
    IF fetched.kind = "reject" THEN Throw(fetched.message)
    ELSE IF ~Ok(fetched.status) THEN nonOkError(fetched.status, fetched.body)
    ELSE responseJson(fetched.body)

----------------------------------------------------------------------------
(* Result formatter: formatSearchResults *)

NoResults == "No search results found."
ItemSeparator == "\n\n---\n\n"

\* A variant that numbers the items from 0.
formatItemZeroBased(result, index) ==
    LET parts ==
            <<"[" \o ToString(index) \o "] " \o ToStr(Prop(result, "title"))>>
            \o (IF Truthy(Prop(result, "media"))
                THEN <<"Source: " \o ToStr(Prop(result, "media"))>> ELSE <<>>)
            \o (IF Truthy(Prop(result, "publish_date"))
                THEN <<"Published: " \o ToStr(Prop(result, "publish_date"))>> ELSE <<>>)
            \o <<"URL: " \o ToStr(Prop(result, "link"))>>
            \o <<"Content: " \o ToStr(Prop(result, "content"))>>
    IN  Join(parts, "\n")

\* A variant that pushes the URL line before the optional lines.
formatItemUrlFirst(result, index) ==
    LET parts ==
            <<"[" \o ToString(index + 1) \o "] " \o ToStr(Prop(result, "title"))>>
            \o <<"URL: " \o ToStr(Prop(result, "link"))>>
            \o (IF Truthy(Prop(result, "media"))
                THEN <<"Source: " \o ToStr(Prop(result, "media"))>> ELSE <<>>)
            \o (IF Truthy(Prop(result, "publish_date"))
                THEN <<"Published: " \o ToStr(Prop(result, "publish_date"))>> ELSE <<>>)
            \o <<"Content: " \o ToStr(Prop(result, "content"))>>
    IN  Join(parts, "\n")

\* The callback of results.map: one item's block (index counts from 0).
formatItem(result, index) ==
    LET parts ==
            <<"[" \o ToString(index + 1) \o "] " \o ToStr(Prop(result, "title"))>>
            \o (IF Truthy(Prop(result, "media"))
                THEN <<"Source: " \o ToStr(Prop(result, "media"))>> ELSE <<>>)
            \o (IF Truthy(Prop(result, "publish_date"))
                THEN <<"Published: " \o ToStr(Prop(result, "publish_date"))>> ELSE <<>>)
            \o <<"URL: " \o ToStr(Prop(result, "link"))>>
            \o <<"Content: " \o ToStr(Prop(result, "content"))>>
    IN  Join(parts, "\n")

\* formatSearchResults(results) for any JavaScript value the response may
\* carry as search_result: reading .length of null or undefined throws, a
\* string has a length but no map, and reading a field of a null item throws.
formatSearchResults(results) ==
    CASE Nullish(results) ->
            Throw("Cannot read properties of " \o ToStr(results) \o " (reading 'length')")
      [] results.t = "string" ->
            IF Len(results.v) = 0 THEN Return(NoResults)
            ELSE Throw("results.map is not a function")
      [] results.t = "array" ->
            IF Len(results.v) = 0 THEN Return(NoResults)
            ELSE IF \E i \in 1..Len(results.v) : Nullish(results.v[i])
            THEN Throw("Cannot read properties of null (reading 'title')")
            ELSE Return(Join([i \in 1..Len(results.v) |-> formatItem(results.v[i], i - 1)],
                             ItemSeparator))
      [] OTHER -> Throw("results.map is not a function")

\* results.length, where formatSearchResults has returned
lengthOf(results) ==
    IF results.t \in {"array", "string"} THEN Num(Len(results.v)) ELSE Undefined

----------------------------------------------------------------------------
(* Tool registration and the execute handler *)

TextResult(text, details) ==
    [content |-> <<[type |-> "text", text |-> text]>>, details |-> details]

\* Lines 236-244
NoKeyResult ==
    TextResult("Error: BigModel API key is not configured. Please set it in plugin config (plugins.entries.bigmodel-web-search.config.apiKey) or BIGMODEL_API_KEY environment variable.",
               [error |-> TRUE, message |-> "API key not configured"])

\* Line 234
resolveApiKey(config, environment) == Coalesce(Get(config, "apiKey"), environment)

\* A variant in which a configured default wins over the explicit value.
applyDefaultsConfigFirst(params, config) ==
    [k \in DOMAIN params \cup {"search_engine", "count"} |->
        CASE k = "search_engine" ->
                Coalesce(Get(config, "defaultSearchEngine"),
                         Coalesce(Get(params, "search_engine"), Str("search_std")))
          [] k = "count" ->
                Coalesce(Get(config, "defaultCount"),
                         Coalesce(Get(params, "count"), Num(DefaultCount)))
          [] OTHER -> params[k]]

\* Lines 248-252: {...params, search_engine: ..., count: ...}
applyDefaults(params, config) ==
    [k \in DOMAIN params \cup {"search_engine", "count"} |->
        CASE k = "search_engine" ->
                Coalesce(Get(params, "search_engine"),
                         Coalesce(Get(config, "defaultSearchEngine"), Str("search_std")))
          [] k = "count" ->
                Coalesce(Get(params, "count"),
                         Coalesce(Get(config, "defaultCount"), Num(DefaultCount)))
          [] OTHER -> params[k]]

\* A variant that echoes the invocation's own search_engine in details.
trySearchEchoParams(params, searchParams, fetched) ==
    LET searched == performWebSearch(fetched)
    IN  IF searched.kind = "throw" THEN searched
        ELSE IF Nullish(searched.value)
        THEN Throw("Cannot read properties of null (reading 'search_result')")
        ELSE LET results == Prop(searched.value, "search_result")
                 formattedResults == formatSearchResults(results)
             IN  IF formattedResults.kind = "throw" THEN formattedResults
                 ELSE Return(TextResult(
                        "## Web Search Results for: \"" \o ToStr(Get(params, "query"))
                            \o "\"\n\n" \o formattedResults.value,
                        [query |-> Get(params, "query"),
                         resultCount |-> lengthOf(results),
                         searchEngine |-> Get(params, "search_engine")]))

\* Lines 255-270, the body of try, from the point where fetch settles.
trySearch(params, searchParams, fetched) ==
    LET searched == performWebSearch(fetched)
    IN  IF searched.kind = "throw" THEN searched
        ELSE IF Nullish(searched.value)
        THEN Throw("Cannot read properties of null (reading 'search_result')")
        ELSE LET results == Prop(searched.value, "search_result")
                 formattedResults == formatSearchResults(results)
             IN  IF formattedResults.kind = "throw" THEN formattedResults
                 ELSE Return(TextResult(
                        "## Web Search Results for: \"" \o ToStr(Get(params, "query"))
                            \o "\"\n\n" \o formattedResults.value,
                        [query |-> Get(params, "query"),
                         resultCount |-> lengthOf(results),
                         searchEngine |-> Get(searchParams, "search_engine")]))

\* A variant without the try/catch: what the try block throws propagates.
catchErrorNone(completion) == completion

\* Lines 271-283: every Error thrown in the try block becomes a result.
catchError(completion) ==
    IF completion.kind = "throw"
    THEN Return(TextResult("Error performing web search: " \o completion.message,
                           [error |-> TRUE, message |-> completion.message]))
    ELSE completion

\* execute from the point where fetch settles.
executeSettled(params, searchParams, fetched) ==
    catchError(trySearch(params, searchParams, fetched))

----------------------------------------------------------------------------
(* Inputs *)

\* Marks a key left out of an object under construction.
Absent == [t |-> "absent"]
Strip(o) == [k \in {j \in DOMAIN o : o[j] # Absent} |-> o[k]]

MaxResults == 2

\* Raw configuration values handed to pluginConfigSchema.parse.
NonObjectConfigs ==
    {Undefined, Null, Bool(FALSE), Bool(TRUE), Num(0), Num(7), NaN, Str(""),
     Str("cfg"), Arr(<<>>), Arr(<<Str("apiKey")>>)}
RawEnabled == {Absent, Bool(TRUE), Bool(FALSE), Str("true")}
RawApiKey == {Absent, Str(""), Str("cfg-key"), Num(1), Null}
RawEngine ==
    {Absent, Null, Str("bogus")} \cup {Str(e) : e \in SearchEngines}
RawCount ==
    {Absent, Num(-3), Num(0), Frac(0, 9), Num(1), Frac(1, 5), Num(15), Num(50),
     Frac(50, 5), Num(51), NaN, Str("10")}
RawExtra == {Absent, Num(5)}
RawConfigs ==
    NonObjectConfigs \cup
    {Obj(Strip([enabled |-> a, apiKey |-> b, defaultSearchEngine |-> c,
                defaultCount |-> d, timeout |-> e])) :
        a \in RawEnabled, b \in RawApiKey, c \in RawEngine, d \in RawCount,
        e \in RawExtra}

\* The configurations the execute handler is run under.
ExecConfigs ==
    {Null,
     Obj([defaultSearchEngine |-> Str("bogus"), defaultCount |-> Num(51)])} \cup
    {Obj(Strip([enabled |-> a, apiKey |-> b, defaultSearchEngine |-> c,
                defaultCount |-> d])) :
        a \in {Absent, Bool(FALSE)},
        b \in {Absent, Str(""), Str("cfg-key")},
        c \in {Absent, Str("search_pro")},
        d \in {Absent, Num(15), Frac(1, 5)}}

EnvValues == {Undefined, Str(""), Str("env-key")}

\* Invocation parameters that satisfy the WebSearchParameters schema.
RecencyFilters == {"oneDay", "oneWeek", "oneMonth", "oneYear", "noLimit"}
ContentSizes == {"medium", "high"}
MkParams(q, e, c, r, s, d) ==
    Strip([query |-> q, search_engine |-> e, count |-> c,
           search_recency_filter |-> r, content_size |-> s,
           search_domain_filter |-> d])
SchemaParams ==
    {MkParams(Str("q"), e, c, r, s, d) :
        e \in {Absent} \cup {Str(x) : x \in SearchEngines},
        c \in {Absent, Num(1), Frac(2, 5), Num(10), Num(50)},
        r \in {Absent} \cup {Str(x) : x \in RecencyFilters},
        s \in {Absent} \cup {Str(x) : x \in ContentSizes},
        d \in {Absent, Str(""), Str("example.com")}}
ExecParams ==
    {MkParams(Str("q"), e, c, r, Absent, d) :
        e \in {Absent, Str("search_std"), Str("search_pro")},
        c \in {Absent, Num(10), Num(15)},
        r \in {Absent, Str("oneWeek")},
        d \in {Absent, Str(""), Str("example.com")}}

\* Result items and result lists of up to MaxResults items.
MkItem(t, m, p) ==
    Obj(Strip([title |-> t, content |-> Str("C"), link |-> Str("L"),
               media |-> m, publish_date |-> p]))
Items ==
    {MkItem(t, m, p) :
        t \in {Str("T"), Str("U")},
        m \in {Absent, Str(""), Str("M")},
        p \in {Absent, Str(""), Str("2024-01-01")}}
ExecItems == {MkItem(Str("T"), Str("M"), Absent)}
ListsOf(S) == UNION {[1..n -> S] : n \in 0..MaxResults}

\* Bodies of a response that carry no result list.
ErrorBodies ==
    {Unparseable, JsonBody(Null), JsonBody(Obj(EmptyObject)),
     JsonBody(Obj([error |-> Obj([message |-> Str("bad key")])])),
     JsonBody(Obj([error |-> Obj([code |-> Str("1001")])])),
     JsonBody(Obj([error |-> Null])),
     JsonBody(Obj([error |-> Str("denied")])),
     JsonBody(Str("Bad Gateway")),
     JsonBody(Obj([id |-> Str("r1"), search_result |-> Null]))}
ResultBody(list) ==
    JsonBody(Obj([id |-> Str("r1"), created |-> Num(7), search_result |-> Arr(list)]))
Statuses == {200, 401, 500}
FetchOutcomes(bodies) ==
    {FetchRejected("fetch failed")} \cup
    {FetchResponse(st, b) : st \in Statuses, b \in bodies}
SearchOutcomes ==
    FetchOutcomes(ErrorBodies \cup {ResultBody(l) : l \in ListsOf(ExecItems)})
ExecOutcomes ==
    FetchOutcomes({Unparseable, JsonBody(Null), JsonBody(Obj(EmptyObject)),
                   JsonBody(Obj([error |-> Obj([message |-> Str("bad key")])]))}
                  \cup {ResultBody(l) : l \in ListsOf(ExecItems)})

CallIds == {1}

----------------------------------------------------------------------------
(* State machine *)

IdleCall ==
    [pc |-> "idle", params |-> Undefined, apiKey |-> Undefined,
     searchParams |-> Undefined, request |-> Undefined, requests |-> 0,
     fetched |-> Undefined, result |-> Undefined]
IdleSearch ==
    [pc |-> "idle", params |-> Undefined, apiKey |-> Undefined,
     request |-> Undefined, fetched |-> Undefined, completion |-> Undefined]
IdleFmt == [pc |-> "idle", results |-> Undefined, completion |-> Undefined]

InitWith(configs) ==
    /\ apiPluginConfig \in configs
    /\ env \in EnvValues
    /\ tool = "unregistered"
    /\ pluginConfig = Undefined
    /\ calls = [i \in CallIds |-> IdleCall]
    /\ search = IdleSearch
    /\ fmt = IdleFmt

Init == InitWith(ExecConfigs)

\* register(api): lines 223-286
Register ==
    /\ tool = "unregistered"
    /\ LET parsed == parse(apiPluginConfig)
       IN  IF parsed.kind = "return"
           THEN tool' = "registered" /\ pluginConfig' = parsed.value
           ELSE tool' = "failed" /\ UNCHANGED pluginConfig
    /\ UNCHANGED <<apiPluginConfig, env, calls, search, fmt>>

\* A variant in which searchParams is one variable shared by the
\* invocations: each invocation overwrites what the others hold.
ExecuteSharedParams(i, params) ==
    /\ tool = "registered"
    /\ calls[i].pc = "idle"
    /\ LET apiKey == resolveApiKey(pluginConfig, env)
           searchParams == applyDefaults(params, pluginConfig)
       IN  IF ~Truthy(apiKey)
           THEN calls' = [calls EXCEPT ![i] =
                    [IdleCall EXCEPT !.pc = "returned", !.params = params,
                                     !.apiKey = apiKey,
                                     !.result = Return(NoKeyResult)]]
           ELSE calls' = [j \in DOMAIN calls |->
                    IF j = i
                    THEN [IdleCall EXCEPT !.pc = "fetching", !.params = params,
                                          !.apiKey = apiKey,
                                          !.searchParams = searchParams,
                                          !.request = fetchRequest(searchParams, apiKey),
                                          !.requests = 1]
                    ELSE IF calls[j].pc = "fetching"
                    THEN [calls[j] EXCEPT !.searchParams = searchParams]
                    ELSE calls[j]]
    /\ UNCHANGED <<apiPluginConfig, env, tool, pluginConfig, search, fmt>>

\* execute(_id, params) up to its return without a key or to the await of
\* fetch: lines 232-255 and 159-178
Execute(i, params) ==
    /\ tool = "registered"
    /\ calls[i].pc = "idle"
    /\ LET apiKey == resolveApiKey(pluginConfig, env)
           searchParams == applyDefaults(params, pluginConfig)
       IN  IF ~Truthy(apiKey)
           THEN calls' = [calls EXCEPT ![i] =
                    [IdleCall EXCEPT !.pc = "returned", !.params = params,
                                     !.apiKey = apiKey,
                                     !.result = Return(NoKeyResult)]]
           ELSE calls' = [calls EXCEPT ![i] =
                    [IdleCall EXCEPT !.pc = "fetching", !.params = params,
                                     !.apiKey = apiKey,
                                     !.searchParams = searchParams,
                                     !.request = fetchRequest(searchParams, apiKey),
                                     !.requests = 1]]
    /\ UNCHANGED <<apiPluginConfig, env, tool, pluginConfig, search, fmt>>

\* A variant that sends the request once more when fetch rejects.
FetchSettlesRetry(i, fetched) ==
    /\ calls[i].pc = "fetching"
    /\ IF fetched.kind = "reject" /\ calls[i].requests = 1
       THEN calls' = [calls EXCEPT ![i].requests = 2]
       ELSE calls' = [calls EXCEPT ![i].pc = "returned", ![i].fetched = fetched,
                                   ![i].result = executeSettled(calls[i].params,
                                                     calls[i].searchParams, fetched)]
    /\ UNCHANGED <<apiPluginConfig, env, tool, pluginConfig, search, fmt>>

\* fetch settles and execute runs to its return: lines 171-188 and 255-283.
\* calls[i].requests counts the calls of fetch the invocation has made.
FetchSettles(i, fetched) ==
    /\ calls[i].pc = "fetching"
    /\ calls' = [calls EXCEPT ![i].pc = "returned", ![i].fetched = fetched,
                              ![i].result = executeSettled(calls[i].params,
                                                calls[i].searchParams, fetched)]
    /\ UNCHANGED <<apiPluginConfig, env, tool, pluginConfig, search, fmt>>

Next ==
    \/ Register
    \/ \E i \in CallIds, params \in ExecParams : Execute(i, params)
    \/ \E i \in CallIds, fetched \in ExecOutcomes : FetchSettles(i, fetched)

Spec == Init /\ [][Next]_vars

\* The await of fetch resumes once the promise settles, and a fetch does
\* settle: with a response, or with a rejection when the connection fails
\* or the HTTP client gives up.
Fairness ==
    \A i \in CallIds : WF_vars(\E fetched \in ExecOutcomes : FetchSettles(i, fetched))
SpecLive == Spec /\ Fairness

----------------------------------------------------------------------------
(* The configuration normalizer on every raw value: register alone *)

InitParse == InitWith(RawConfigs)
NextParse == Register
SpecParse == InitParse /\ [][NextParse]_vars

----------------------------------------------------------------------------
(* performWebSearch called directly *)

InitIdle ==
    /\ apiPluginConfig = Null
    /\ env = Undefined
    /\ tool = "unregistered"
    /\ pluginConfig = Undefined
    /\ calls = [i \in CallIds |-> IdleCall]
    /\ search = IdleSearch
    /\ fmt = IdleFmt

\* performWebSearch(params, apiKey) up to the await of fetch: lines 159-178
CallPerformWebSearch(params, apiKey) ==
    /\ search.pc = "idle"
    /\ search' = [IdleSearch EXCEPT !.pc = "fetching", !.params = params,
                                    !.apiKey = apiKey,
                                    !.request = fetchRequest(params, apiKey)]
    /\ UNCHANGED <<apiPluginConfig, env, tool, pluginConfig, calls, fmt>>

\* fetch settles and performWebSearch returns or throws: lines 180-187
SearchSettles(fetched) ==
    /\ search.pc = "fetching"
    /\ search' = [search EXCEPT !.pc = "settled", !.fetched = fetched,
                                !.completion = performWebSearch(fetched)]
    /\ UNCHANGED <<apiPluginConfig, env, tool, pluginConfig, calls, fmt>>

NextSearch ==
    \/ \E params \in SchemaParams : CallPerformWebSearch(params, Str("k"))
    \/ \E fetched \in SearchOutcomes : SearchSettles(fetched)
SpecSearch == InitIdle /\ [][NextSearch]_vars

----------------------------------------------------------------------------
(* formatSearchResults called directly *)

\* formatSearchResults(results): lines 193-212
Format(results) ==
    /\ fmt.pc = "idle"
    /\ fmt' = [pc |-> "done", results |-> results,
               completion |-> formatSearchResults(results)]
    /\ UNCHANGED <<apiPluginConfig, env, tool, pluginConfig, calls, search>>

NextFormat == \E list \in ListsOf(Items) : Format(Arr(list))
SpecFormat == InitIdle /\ [][NextFormat]_vars

----------------------------------------------------------------------------
(* Properties of the execute handler, under Spec *)

Started(i) == calls[i].pc \in {"fetching", "returned"}
Sent(i) == Started(i) /\ calls[i].request # Undefined
Settled(i) == calls[i].pc = "returned" /\ calls[i].fetched # Undefined
Succeeded(i) ==
    /\ calls[i].pc = "returned"
    /\ calls[i].result.kind = "return"
    /\ "error" \notin DOMAIN calls[i].result.value.details

\* C1: execute never raises. Whatever fetch settles with, a returned call
\* holds a result with exactly one text block and a details record, and when
\* performWebSearch failed with message m the text is
\* "Error performing web search: m" and details is {error: true, message: m}.
C1_ExecuteNeverRaises ==
    \A i \in CallIds :
        calls[i].pc = "returned" =>
            LET r == calls[i].result
            IN  /\ r.kind = "return"
                /\ DOMAIN r.value = {"content", "details"}
                /\ Len(r.value.content) = 1
                /\ r.value.content[1].type = "text"
                /\ (Settled(i) /\ performWebSearch(calls[i].fetched).kind = "throw") =>
                     LET m == performWebSearch(calls[i].fetched).message
                     IN  /\ r.value.content[1].text = "Error performing web search: " \o m
                         /\ r.value.details = [error |-> TRUE, message |-> m]

\* A call returned an error result after a 2xx response whose body has no
\* search_result list (the executor succeeded, the formatter threw).
C1_Witness ==
    \E i \in CallIds :
        /\ Settled(i)
        /\ calls[i].fetched = FetchResponse(200, JsonBody(Obj(EmptyObject)))
        /\ calls[i].result.kind = "return"
        /\ calls[i].result.value.details.error

\* A source provides a key when it holds a non-empty string.
ProvidesKey(x) == x.t = "string" /\ x.v # ""
\* A source provides a key when it is set at all.
IsSet(x) == x.t = "string"

KeyClaim(i, provides(_)) ==
    LET configKey == Get(pluginConfig, "apiKey")
        expected == IF provides(configKey) THEN configKey ELSE env
    IN  /\ Sent(i) => calls[i].request.Authorization = "Bearer " \o ToStr(expected)
        /\ (calls[i].pc = "returned" /\ ~Sent(i) /\ calls[i].result = Return(NoKeyResult))
             <=> (calls[i].pc = "returned" /\ ~provides(configKey) /\ ~provides(env))

\* C2: the bearer token sent is the config apiKey when the config provides
\* one and otherwise the environment value, and the "API key not configured"
\* result is returned, with no request sent, exactly when neither source
\* provides a key. Stated for both readings of "provides" (a non-empty
\* string; any string): a state violates it when it violates both.
C2_SecretResolution ==
    \A i \in CallIds :
        calls[i].pc # "idle" => (KeyClaim(i, ProvidesKey) \/ KeyClaim(i, IsSet))

ExpectedEngine(params, config) ==
    IF "search_engine" \in DOMAIN params THEN params["search_engine"]
    ELSE IF config["defaultSearchEngine"] # Undefined THEN config["defaultSearchEngine"]
    ELSE Str("search_std")
ExpectedCount(params, config) ==
    IF "count" \in DOMAIN params THEN params["count"]
    ELSE IF config["defaultCount"] # Undefined THEN config["defaultCount"]
    ELSE Num(10)
ConfigOrEmpty == [k \in ConfigKeys |-> Get(pluginConfig, k)]

\* C3: the search_engine and the count sent in the request body (and the
\* searchEngine echoed in the details of a success) are the explicit
\* invocation value if given, else the parsed config's default if it has
\* one, else search_std and 10.
C3_ParameterDefaulting ==
    \A i \in CallIds :
        /\ Sent(i) =>
            /\ calls[i].request.body["search_engine"]
                 = ExpectedEngine(calls[i].params, ConfigOrEmpty)
            /\ calls[i].request.body["count"]
                 = ExpectedCount(calls[i].params, ConfigOrEmpty)
        /\ Succeeded(i) =>
            calls[i].result.value.details.searchEngine
              = ExpectedEngine(calls[i].params, ConfigOrEmpty)

\* A success with the engine taken from the config and the count given
\* explicitly although the config has a default count.
C3_Witness ==
    \E i \in CallIds :
        /\ Succeeded(i)
        /\ "search_engine" \notin DOMAIN calls[i].params
        /\ Get(pluginConfig, "defaultSearchEngine") = Str("search_pro")
        /\ calls[i].result.value.details.searchEngine = Str("search_pro")
        /\ Get(calls[i].params, "count") = Num(10)
        /\ Get(pluginConfig, "defaultCount") = Num(15)
        /\ calls[i].request.body["count"] = Num(10)

----------------------------------------------------------------------------
(* Properties of performWebSearch, under SpecSearch *)

NonOk ==
    /\ search.pc = "settled"
    /\ search.fetched.kind = "response"
    /\ ~Ok(search.fetched.status)

\* The body parses as JSON and carries error.message.
CarriesMessage(body) ==
    /\ body.parses
    /\ body.json.t = "object"
    /\ Get(body.json.v, "error").t = "object"
    /\ Get(Get(body.json.v, "error").v, "message").t = "string"

\* C4: on a non-success status performWebSearch always throws, and the
\* message contains the body's error.message when the body parses and
\* carries it, and the status code in every other case.
C4_NonSuccessStatus ==
    NonOk =>
        /\ search.completion.kind = "throw"
        /\ IF CarriesMessage(search.fetched.body)
           THEN Contains(search.completion.message,
                         search.fetched.body.json.v["error"].v["message"].v)
           ELSE Contains(search.completion.message, ToString(search.fetched.status))

GivenOr(params, k, default) == IF k \in DOMAIN params THEN params[k] ELSE default

\* C5: the request body has search_query = params.query, search_intent
\* false, each of search_engine, count, search_recency_filter and
\* content_size equal to the given value or else search_std, 10, noLimit and
\* medium, and the key search_domain_filter exactly when the parameter is
\* present and non-empty, with its value unchanged.
C5_RequestBody ==
    search.pc # "idle" =>
        LET p == search.params
            b == search.request.body
            filtered == "search_domain_filter" \in DOMAIN p
                        /\ p["search_domain_filter"] # Str("")
        IN  /\ b["search_query"] = p["query"]
            /\ b["search_intent"] = Bool(FALSE)
            /\ b["search_engine"] = GivenOr(p, "search_engine", Str("search_std"))
            /\ b["count"] = GivenOr(p, "count", Num(10))
            /\ b["search_recency_filter"]
                 = GivenOr(p, "search_recency_filter", Str("noLimit"))
            /\ b["content_size"] = GivenOr(p, "content_size", Str("medium"))
            /\ ("search_domain_filter" \in DOMAIN b) <=> filtered
            /\ filtered => b["search_domain_filter"] = p["search_domain_filter"]
            /\ DOMAIN b \subseteq BodyKeys \cup {"search_domain_filter"}

\* A request built from parameters that give an empty domain filter and
\* leave the engine and the count out.
C5_Witness ==
    /\ search.pc = "fetching"
    /\ Get(search.params, "search_domain_filter") = Str("")
    /\ DOMAIN search.params = {"query", "search_domain_filter"}
    /\ "search_domain_filter" \notin DOMAIN search.request.body

----------------------------------------------------------------------------
(* Properties of formatSearchResults, under SpecFormat *)

Formatted == fmt.pc = "done"

\* C6: the empty list gives exactly "No search results found."; a list of
\* n items gives n blocks in input order, separated by "\n\n---\n\n" (n-1
\* separators), the i-th starting with "[i] <title>", and the lines of a
\* block are joined by single newlines.
C6_FormatBlocks ==
    Formatted =>
        LET items == fmt.results.v
            n == Len(items)
            out == fmt.completion
        IN  /\ out.kind = "return"
            /\ n = 0 => out.value = "No search results found."
            /\ n > 0 =>
                LET blocks == Split(out.value, "\n\n---\n\n")
                IN  /\ Len(blocks) = n
                    /\ \A i \in 1..n :
                        /\ StartsWith(blocks[i],
                              "[" \o ToString(i) \o "] " \o items[i].v["title"].v \o "\n")
                        /\ \A line \in {Split(blocks[i], "\n")[j] :
                                          j \in 1..Len(Split(blocks[i], "\n"))} :
                              line # ""

\* Two items with different titles were formatted.
C6_Witness ==
    /\ Formatted
    /\ Len(fmt.results.v) = 2
    /\ fmt.results.v[1].v["title"] = Str("T")
    /\ fmt.results.v[2].v["title"] = Str("U")
    /\ Len(Split(fmt.completion.value, "\n\n---\n\n")) = 2

\* The lines of the block of `item`, the i-th of the list, when the
\* optional lines appear for the fields that satisfy `shown`.
ExpectedLines(item, i, shown(_, _)) ==
    <<"[" \o ToString(i) \o "] " \o item["title"].v>>
    \o (IF shown(item, "media") THEN <<"Source: " \o item["media"].v>> ELSE <<>>)
    \o (IF shown(item, "publish_date")
        THEN <<"Published: " \o item["publish_date"].v>> ELSE <<>>)
    \o <<"URL: " \o item["link"].v, "Content: " \o item["content"].v>>

Present(item, k) == k \in DOMAIN item
PresentNonEmpty(item, k) == k \in DOMAIN item /\ item[k] # Str("")

BlocksAre(shown(_, _)) ==
    (Formatted /\ Len(fmt.results.v) > 0) =>
        LET blocks == Split(fmt.completion.value, "\n\n---\n\n")
        IN  /\ Len(blocks) = Len(fmt.results.v)
            /\ \A i \in 1..Len(blocks) :
                  Split(blocks[i], "\n") = ExpectedLines(fmt.results.v[i].v, i, shown)

\* C7 as stated: the Source and the Published line appear exactly when the
\* field is present, whatever its value, the empty string included.
C7_OptionalLinesWhenPresent == BlocksAre(Present)

\* C7, amended: each block is the title line, then "Source: <media>"
\* exactly when media is present and not the empty string, then
\* "Published: <publish_date>" exactly when publish_date is present and not
\* the empty string, then the URL line, then the Content line.
C7_OptionalLinesWhenNonEmpty == BlocksAre(PresentNonEmpty)

\* An item with an empty media and a dated publish_date was formatted.
C7_Witness ==
    /\ Formatted
    /\ \E i \in 1..Len(fmt.results.v) :
        /\ Get(fmt.results.v[i].v, "media") = Str("")
        /\ Get(fmt.results.v[i].v, "publish_date") = Str("2024-01-01")
        /\ Len(Split(Split(fmt.completion.value, "\n\n---\n\n")[i], "\n")) = 4

----------------------------------------------------------------------------
(* Properties of pluginConfigSchema.parse, under SpecParse and Spec *)

\* The value of a number in tenths.
Tenths(x) == 10 * x.v + x.frac

\* The check the data model states for each known field.
FieldValid(k, x) ==
    CASE k = "enabled" -> x.t = "boolean"
      [] k = "apiKey" -> x.t = "string"
      [] k = "defaultSearchEngine" ->
            x \in {Str("search_std"), Str("search_pro"), Str("search_pro_sogou"),
                   Str("search_pro_quark")}
      [] k = "defaultCount" ->
            x.t = "number" /\ ~x.nan /\ Tenths(x) >= 10 /\ Tenths(x) <= 500

\* C8: parse never raises; a raw value that is not a non-array object gives
\* a config with every field unspecified; an object gives the four known
\* fields, each kept when it passes its own check and unspecified when it
\* does not, whatever other keys the object has.
C8_ParseTotal ==
    tool # "unregistered" =>
        /\ tool = "registered"
        /\ IF apiPluginConfig.t # "object"
           THEN \A k \in ConfigKeys : Get(pluginConfig, k) = Undefined
           ELSE /\ DOMAIN pluginConfig = ConfigKeys
                /\ \A k \in ConfigKeys :
                     pluginConfig[k] =
                        IF k \in DOMAIN apiPluginConfig.v
                           /\ FieldValid(k, apiPluginConfig.v[k])
                        THEN apiPluginConfig.v[k] ELSE Undefined

\* An object with an unrecognized key, an out-of-range count and a valid
\* key and engine was parsed: the count is dropped, the others are kept.
C8_Witness ==
    /\ tool = "registered"
    /\ apiPluginConfig.t = "object"
    /\ "timeout" \in DOMAIN apiPluginConfig.v
    /\ Get(apiPluginConfig.v, "defaultCount") = Num(51)
    /\ Get(apiPluginConfig.v, "enabled") = Str("true")
    /\ pluginConfig = [enabled |-> Undefined, apiKey |-> Str("cfg-key"),
                       defaultSearchEngine |-> Str("search_pro_quark"),
                       defaultCount |-> Undefined]

IntegerInRange(x) == IsInteger(x) /\ x.v \in 1..50

\* C9: the parsed defaultCount is unspecified or an integer between 1 and
\* 50, the parsed defaultSearchEngine is unspecified or one of the four
\* engines, and so the count sent to the remote API is an integer in 1..50.
C9_CountIsInteger ==
    /\ tool = "registered" =>
        /\ Get(pluginConfig, "defaultCount") = Undefined
             \/ IntegerInRange(Get(pluginConfig, "defaultCount"))
        /\ Get(pluginConfig, "defaultSearchEngine") = Undefined
             \/ Get(pluginConfig, "defaultSearchEngine") \in {Str(e) : e \in SearchEngines}
    /\ \A i \in CallIds :
        Sent(i) => IntegerInRange(calls[i].request.body["count"])

----------------------------------------------------------------------------
(* Defaulting as a round trip, under Spec *)

HardDefaults ==
    [search_engine |-> Str("search_std"), count |-> Num(10),
     search_recency_filter |-> Str("noLimit"), content_size |-> Str("medium")]

\* The defaults in force under a parsed config.
EffectiveDefaults(config) ==
    [HardDefaults EXCEPT
        !.search_engine = IF Get(config, "defaultSearchEngine") = Undefined
                          THEN @ ELSE Get(config, "defaultSearchEngine"),
        !.count = IF Get(config, "defaultCount") = Undefined
                  THEN @ ELSE Get(config, "defaultCount")]

\* params with the parameters in S supplied from defaults
Supply(params, defaults, S) ==
    [k \in DOMAIN params \cup S |-> IF k \in DOMAIN params THEN params[k] ELSE defaults[k]]

\* Supplying any of the omitted parameters from `defaults` gives the request
\* body and the result the invocation itself had.
SameAsOmitting(i, defaults) ==
    \A S \in SUBSET (DOMAIN defaults \ DOMAIN calls[i].params) :
        LET q == Supply(calls[i].params, defaults, S)
            filled == applyDefaults(q, pluginConfig)
        IN  /\ Sent(i) =>
                fetchRequest(filled, calls[i].apiKey).body = calls[i].request.body
            /\ Settled(i) =>
                executeSettled(q, filled, calls[i].fetched) = calls[i].result

\* C10 as stated: for every plugin config, supplying search_std, 10, noLimit
\* and medium explicitly gives the same request body and the same result as
\* omitting them.
C10_HardDefaultsIdempotent ==
    \A i \in CallIds : Started(i) => SameAsOmitting(i, HardDefaults)

\* C10, amended: supplying explicit values equal to the defaults in force
\* (the config's defaultSearchEngine or else search_std, the config's
\* defaultCount or else 10, noLimit, medium) gives the same request body and
\* the same result as omitting them.
C10_EffectiveDefaultsIdempotent ==
    \A i \in CallIds : Started(i) => SameAsOmitting(i, EffectiveDefaults(pluginConfig))

\* A success of an invocation that omits all four parameters under a config
\* that sets both defaults.
C10_Witness ==
    \E i \in CallIds :
        /\ Succeeded(i)
        /\ DOMAIN calls[i].params = {"query"}
        /\ Get(pluginConfig, "defaultSearchEngine") = Str("search_pro")
        /\ Get(pluginConfig, "defaultCount") = Num(15)
        /\ calls[i].result.value.details.resultCount = Num(2)

----------------------------------------------------------------------------
(* The enabled option, under Spec *)

\* C11: when the configuration passed to register has enabled = false the
\* plugin is disabled, so no invocation sends a request; with enabled true
\* or unspecified the tool is operational: an invocation that resolves a
\* key sends its request.
C11_EnabledFlag ==
    \A i \in CallIds :
        /\ Prop(apiPluginConfig, "enabled") = Bool(FALSE) => ~Sent(i)
        /\ (/\ Prop(apiPluginConfig, "enabled") # Bool(FALSE)
            /\ Started(i)
            /\ Truthy(resolveApiKey(pluginConfig, env))) => Sent(i)

----------------------------------------------------------------------------
(* One request, one outcome: under SpecLive *)

\* The items of a 2xx response that carries a result list.
ReturnedItems(fetched) == fetched.body.json.v["search_result"].v
CarriesList(fetched) ==
    /\ fetched.kind = "response"
    /\ fetched.status \in 200..299
    /\ fetched.body.parses
    /\ fetched.body.json.t = "object"
    /\ Get(fetched.body.json.v, "search_result").t = "array"

\* The result is a success carrying every item of the response.
FullSuccess(i) ==
    LET r == calls[i].result.value
        items == ReturnedItems(calls[i].fetched)
        heading == "## Web Search Results for: \"" \o calls[i].params["query"].v \o "\"\n\n"
        listing == SubSeq(r.content[1].text, Len(heading) + 1, Len(r.content[1].text))
    IN  /\ DOMAIN r.details = {"query", "resultCount", "searchEngine"}
        /\ r.details.resultCount = Num(Len(items))
        /\ StartsWith(r.content[1].text, heading)
        /\ IF Len(items) = 0 THEN listing = "No search results found."
           ELSE /\ Len(Split(listing, "\n\n---\n\n")) = Len(items)
                /\ \A n \in 1..Len(items) :
                     StartsWith(Split(listing, "\n\n---\n\n")[n],
                                "[" \o ToString(n) \o "] " \o items[n].v["title"].v)

\* The result is error-shaped and carries no result.
ErrorOnly(i) ==
    LET r == calls[i].result.value
    IN  /\ DOMAIN r.details = {"error", "message"}
        /\ r.details.error
        /\ StartsWith(r.content[1].text, "Error")
        /\ ~Contains(r.content[1].text, "[1] ")
        /\ ~Contains(r.content[1].text, "URL: ")

OneRequestOneOutcome(i) ==
    /\ calls[i].requests <= 1
    /\ Started(i) => (calls[i].requests = 1 <=> Truthy(calls[i].apiKey))
    /\ calls[i].requests = 1 <=> Sent(i)
    /\ calls[i].pc = "returned" =>
        /\ calls[i].result.kind = "return"
        /\ Len(calls[i].result.value.content) = 1
        /\ IF Settled(i) /\ CarriesList(calls[i].fetched)
           THEN FullSuccess(i) ELSE ErrorOnly(i)

\* C12: an invocation sends at most one HTTP request, exactly one when a key
\* is resolved, and never sends it again; it ends, and it ends either in a
\* success that carries the whole result list of its one response (with
\* details.resultCount the number of items) or in an error-shaped result
\* that carries no result.
C12_NoRetryNoPartialSuccess ==
    /\ [](\A i \in CallIds : OneRequestOneOutcome(i))
    /\ [][\A i \in CallIds : calls[i].requests >= 1 =>
                calls'[i].requests = calls[i].requests]_vars
    /\ \A i \in CallIds : Started(i) ~> (calls[i].pc = "returned")

\* A request failed with a network error and the invocation ended in an
\* error result, having sent one request.
C12_Witness ==
    \E i \in CallIds :
        /\ Settled(i)
        /\ calls[i].fetched.kind = "reject"
        /\ calls[i].requests = 1
        /\ calls[i].result.value.details.error

----------------------------------------------------------------------------
(* Concurrent invocations *)

MaxCalls == 2
ConcIds == 1..MaxCalls

ConcConfigs ==
    {Obj([apiKey |-> Str("cfg-key")]),
     Obj([defaultSearchEngine |-> Str("search_pro"), defaultCount |-> Num(15)])}
ConcParams ==
    {MkParams(Str("a"), Absent, Absent, Absent, Absent, Absent),
     MkParams(Str("b"), Str("search_std"), Absent, Absent, Absent, Absent),
     MkParams(Str("a"), Str("search_pro_quark"), Num(1), Absent, Absent,
              Str("example.com"))}
ConcOutcomes ==
    {FetchRejected("fetch failed"),
     FetchResponse(500, Unparseable),
     FetchResponse(200, ResultBody(<<>>)),
     FetchResponse(200, ResultBody(<<MkItem(Str("T"), Str("M"), Absent)>>))}

InitConc ==
    /\ apiPluginConfig \in ConcConfigs
    /\ env \in {Undefined, Str("env-key")}
    /\ tool = "unregistered"
    /\ pluginConfig = Undefined
    /\ calls = [i \in ConcIds |-> IdleCall]
    /\ search = IdleSearch
    /\ fmt = IdleFmt

\* Each invocation moves on its own: any invocation may start while others
\* are suspended at fetch, and the fetches settle in any order.
NextConc ==
    \/ Register
    \/ \E i \in ConcIds, params \in ConcParams : Execute(i, params)
    \/ \E i \in ConcIds, fetched \in ConcOutcomes : FetchSettles(i, fetched)

SpecConc == InitConc /\ [][NextConc]_vars

\* What invocation i sends and returns when it runs alone under the config
\* and the environment, given its own parameters and its own response.
AloneRequest(i) ==
    fetchRequest(applyDefaults(calls[i].params, pluginConfig),
                 resolveApiKey(pluginConfig, env))
AloneResult(i) ==
    IF ~Truthy(resolveApiKey(pluginConfig, env)) THEN Return(NoKeyResult)
    ELSE executeSettled(calls[i].params,
                        applyDefaults(calls[i].params, pluginConfig),
                        calls[i].fetched)

\* C13: under any interleaving of invocations suspended at their requests,
\* the config built at registration is never modified, each invocation's
\* request and result are the ones it has when run alone (they depend on
\* its own parameters, the config and its own response), and a step of one
\* invocation leaves the state of every other invocation as it was.
C13_NoInterference ==
    /\ [](\A i \in ConcIds :
            /\ calls[i].pc = "fetching" => calls[i].request = AloneRequest(i)
            /\ calls[i].pc = "returned" => calls[i].result = AloneResult(i))
    /\ [][tool = "registered" => pluginConfig' = pluginConfig]_vars
    /\ [][\A i \in ConcIds :
            calls'[i] # calls[i] =>
                \A j \in ConcIds \ {i} : calls'[j] = calls[j]]_vars

\* Two invocations with different parameters were suspended together: the
\* first has since returned a success that echoes its own engine, the
\* second is still waiting for its response.
C13_Witness ==
    /\ calls[1].pc = "returned"
    /\ calls[2].pc = "fetching"
    /\ calls[1].params # calls[2].params
    /\ calls[1].searchParams["search_engine"] # calls[2].searchParams["search_engine"]
    /\ "error" \notin DOMAIN calls[1].result.value.details
    /\ calls[1].result.value.details.searchEngine = calls[1].searchParams["search_engine"]

====
